---- MODULE Spec2Model ----
(***************************************************************************)
(* Paper Reproduction Assistant (src/paper_reproduction_mcp.py).           *)
(*                                                                         *)
(* The server keeps one process-wide ProjectState (current_project) and    *)
(* one GitManager (current_git_manager); every tool call of                *)
(* handle_call_tool is one action.  ProjectState.state is a dictionary     *)
(* mirrored to <project>/reproduction_state.json by save_state.            *)
(*                                                                         *)
(* Dictionaries are functions from a finite set of strings; the empty      *)
(* dictionary {} is EmptyMap.  The dynamic keys milestone_<id>_progress,   *)
(* milestone_<id>_overall_progress and milestone_<id>_completed are the    *)
(* fields milestone_progress[id], milestone_overall_progress[id] and       *)
(* milestone_completed[id]; a missing key reads as the default the code    *)
(* passes to dict.get ([] / {} / False).  Chinese literals of the source   *)
(* are written in English.  The state holds only strings, numbers,         *)
(* booleans, lists and string-keyed dictionaries, which json.dump and      *)
(* json.load return unchanged, so the state file is the state itself.      *)
(*                                                                         *)
(* Spec runs every tool with the clock; SpecMilestone and SpecSteps run    *)
(* the tools that start, track and confirm, with wider inputs;             *)
(* SpecCheckpoint adds a git that rejects commits and checkouts,           *)
(* SpecStorage a state file whose write fails, SpecPlan generates the      *)
(* plan for every profile, SpecConfirm confirms every kind of step, and    *)
(* SpecInterleave handles calls on two projects while analyze_paper        *)
(* awaits the network.                                                     *)
(***************************************************************************)
EXTENDS Integers, Sequences, FiniteSets, TLC

----------------------------------------------------------------------------
(* Bounds of the model *)

\* the clock datetime.now() reads takes the values 0..MaxTime
MaxTime == 1
\* confirm_step is called while the active milestone holds fewer records
MaxSteps == 4
\* generate_study_materials is called while fewer notes are stored
MaxNotes == 1
\* in the workflow specifications confirm_step is called while the active
\* milestone holds fewer records
MaxFlowSteps == 1

----------------------------------------------------------------------------
(* Values *)

None == "None"
EmptyMap == [k \in {} |-> ""]

Get(map, key, default) == IF key \in DOMAIN map THEN map[key] ELSE default

\* Python truthiness of a dictionary: "not d" holds exactly for {}
Falsy(map) == DOMAIN map = {}

RECURSIVE Sum(_)
Sum(s) == IF s = <<>> THEN 0 ELSE Head(s) + Sum(Tail(s))

\* Python "needle in haystack" on strings, both sequences of characters
Contains(needle, haystack) ==
    \E i \in 0..(Len(haystack) - Len(needle)) :
        \A j \in 1..Len(needle) : haystack[i + j] = needle[j]

----------------------------------------------------------------------------
(* ReproductionPlanner *)

\* _generate_milestones: the fixed catalog
Milestone(id, title, tasks, validation, hours) ==
    [id |-> id, title |-> title, tasks |-> tasks,
     validation |-> validation, estimated_hours |-> hours]

_generate_milestones ==
    << Milestone("M1", "environment and data",
                 <<"create virtual env", "install dependencies",
                   "download dataset", "preprocessing script">>,
                 "data loads and basic statistics print", 4),
       Milestone("M2", "model architecture",
                 <<"understand model structure", "implement core components",
                   "assemble full model", "test forward pass">>,
                 "forward pass outputs expected dimensions", 8),
       Milestone("M3", "training loop",
                 <<"implement loss", "configure optimizer",
                   "implement training loop", "add monitoring and logs">>,
                 "training starts and loss decreases", 6),
       Milestone("M4", "interpretability",
                 <<"implement explanation algorithm", "generate visualisation",
                   "comparative analysis", "validate results">>,
                 "explanations generated and compared with the paper", 10),
       Milestone("M5", "experiment reproduction",
                 <<"reproduce baseline", "tune hyperparameters",
                   "compare results", "write reproduction report">>,
                 "results agree with the paper", 12) >>

\* faulty variant: the framework is matched without regard to case
_get_core_packages_any_case(framework) ==
    LET packages == <<"numpy", "pandas", "scikit-learn">>
    IN  IF framework \in {"PyTorch", "pytorch"}
            THEN packages \o <<"torch", "torchvision", "pytorch-lightning">>
        ELSE IF framework = "TensorFlow"
            THEN packages \o <<"tensorflow", "keras">>
        ELSE IF framework = "JAX"
            THEN packages \o <<"jax", "flax", "optax">>
        ELSE packages

\* _get_core_packages
_get_core_packages(framework) ==
    LET packages == <<"numpy", "pandas", "scikit-learn">>
    IN  IF framework = "PyTorch"
            THEN packages \o <<"torch", "torchvision", "pytorch-lightning">>
        ELSE IF framework = "TensorFlow"
            THEN packages \o <<"tensorflow", "keras">>
        ELSE IF framework = "JAX"
            THEN packages \o <<"jax", "flax", "optax">>
        ELSE packages

\* _generate_env_setup
_generate_env_setup(user_profile) ==
    LET framework == Get(user_profile, "preferred_framework", "PyTorch")
    IN  [python_version |-> "3.8+",
         virtual_env |-> "conda create -n paper_reproduction python=3.9",
         core_packages |-> _get_core_packages(framework),
         xai_packages |-> <<"shap", "lime", "captum", "matplotlib", "seaborn">>,
         optional_packages |-> <<"wandb", "tensorboard", "jupyter">>]

\* _assess_difficulty
_assess_difficulty(user_profile) ==
    LET experience == Get(user_profile, "experience_level", "beginner")
    IN  IF experience \in {"beginner"} THEN "high difficulty"
        ELSE IF experience \in {"intermediate"} THEN "medium difficulty"
        ELSE "moderate difficulty"

\* _generate_overview: the four substituted fields of the template
_generate_overview(paper_info, user_profile) ==
    [title |-> Get(paper_info, "title", "unknown"),
     method |-> Get(paper_info, "method", "to be analysed"),
     difficulty |-> _assess_difficulty(user_profile),
     framework |-> Get(user_profile, "preferred_framework", "PyTorch")]

\* _generate_resources: only the third title varies
_generate_resources(user_profile) ==
    << "paper reading guide", "XAI introduction",
       <<Get(user_profile, "preferred_framework", "PyTorch"), "official docs">> >>

\* faulty variant: a day is added whatever the remainder
_estimate_timeline_extra_day ==
    LET hours == [i \in 1..Len(_generate_milestones) |->
                      _generate_milestones[i].estimated_hours]
        total_hours == Sum(hours)
        days == (total_hours \div 8) + 1
    IN  [total_hours |-> total_hours, days |-> days]

\* _estimate_timeline: the two numbers of the rendered sentence
_estimate_timeline ==
    LET hours == [i \in 1..Len(_generate_milestones) |->
                      _generate_milestones[i].estimated_hours]
        total_hours == Sum(hours)
        days == (total_hours \div 8) + (IF total_hours % 8 > 0 THEN 1 ELSE 0)
    IN  [total_hours |-> total_hours, days |-> days]

\* generate_plan
generate_plan(paper_info, user_profile) ==
    [overview |-> _generate_overview(paper_info, user_profile),
     milestones |-> _generate_milestones,
     environment_setup |-> _generate_env_setup(user_profile),
     learning_resources |-> _generate_resources(user_profile),
     estimated_timeline |-> _estimate_timeline]

\* faulty variant: an unknown id falls back to the first milestone
FindMilestoneLoose(plan, milestone_id) ==
    LET milestones == Get(plan, "milestones", <<>>)
        hits == {i \in 1..Len(milestones) : milestones[i].id = milestone_id}
    IN  IF hits # {} THEN CHOOSE i \in hits : \A j \in hits : i <= j
        ELSE IF milestones # <<>> THEN 1 ELSE 0

\* next((m for m in milestones if m["id"] == milestone_id), None):
\* the index of the first match, 0 for None
FindMilestone(plan, milestone_id) ==
    LET milestones == Get(plan, "milestones", <<>>)
        hits == {i \in 1..Len(milestones) : milestones[i].id = milestone_id}
    IN  IF hits = {} THEN 0 ELSE CHOOSE i \in hits : \A j \in hits : i <= j

PlanIds == {_generate_milestones[i].id : i \in 1..Len(_generate_milestones)}

----------------------------------------------------------------------------
(* Inputs of the tool calls *)

ProjectDirInputs == {"work"}
ProjectNameInputs == {"p1", "p2"}
ProjectPath(project_dir, project_name) == <<project_dir, project_name>>
Paths == {ProjectPath(d, n) : d \in ProjectDirInputs, n \in ProjectNameInputs}

\* milestone ids a caller passes: the catalog's and one the plan does not hold
MilestoneIdInputs == PlanIds \cup {"MX"}

\* str.lower() on the ids
Lower(id) ==
    [M1 |-> "m1", M2 |-> "m2", M3 |-> "m3", M4 |-> "m4", M5 |-> "m5",
     MX |-> "mx"][id]

\* locators for which str.startswith('http') holds
HttpLocators == {"http://host/paper.pdf", "http://arxiv.org/pdf/1"}

\* what PaperFetcher.search_arxiv can return
ArxivPaper(title, pdf_url) ==
    [title |-> title, authors |-> <<"A. Author">>, summary |-> "summary",
     pdf_url |-> pdf_url, source |-> "arXiv"]
ArxivResults ==
    { <<>>,
      <<ArxivPaper("found paper", None)>>,
      <<ArxivPaper("found paper", "http://arxiv.org/pdf/1")>> }

\* the marker keywords of confirm_step, as character sequences
KeywordImplement == <<"shi", "xian">>
KeywordFinish == <<"wan", "cheng">>

----------------------------------------------------------------------------
(* State *)

VARIABLES
    current_project,      \* <<>> for None, else <<[project_dir, state]>>
    current_git_manager,  \* <<>> for None, else <<project path>>
    disk,                 \* path -> <<>> (no state file) or <<document>>
    repo,                 \* path -> the git repository and generated files
    now,                  \* the value datetime.now() returns
    resp,                 \* what the last tool call returned
    calls,                \* history: the confirm_step calls recorded per milestone
    tracked,              \* history: ids given to track_progress with p >= 100
    awaiting              \* <<>> or <<the analyze_paper call that is suspended>>

vars == <<current_project, current_git_manager, disk, repo, now, resp,
          calls, tracked, awaiting>>

\* ProjectState.load_state
DefaultState ==
    [paper_info |-> EmptyMap,
     user_profile |-> EmptyMap,
     reproduction_plan |-> EmptyMap,
     current_stage |-> <<"initialization">>,
     learning_notes |-> <<>>,
     created_at |-> now,
     last_updated |-> now,
     project_name |-> None,
     current_milestone |-> None,
     milestone_progress |-> [id \in MilestoneIdInputs |-> <<>>],
     milestone_overall_progress |-> [id \in MilestoneIdInputs |-> EmptyMap],
     milestone_completed |-> [id \in MilestoneIdInputs |-> FALSE]]

\* faulty variant: a loaded document gets the time of the load
load_state_restamped(path) ==
    IF disk[path] # <<>> THEN [disk[path][1] EXCEPT !.last_updated = now]
    ELSE DefaultState

load_state(path) ==
    IF disk[path] # <<>> THEN disk[path][1] ELSE DefaultState

\* faulty variant: only the latest step record of a milestone is kept
save_state_latest_step(state) ==
    [state EXCEPT !.last_updated = now,
                  !.milestone_progress =
                      [id \in DOMAIN @ |->
                          IF Len(@[id]) > 1 THEN <<@[id][Len(@[id])]>>
                          ELSE @[id]]]

\* ProjectState.save_state: the document written to the state file
save_state(state) == [state EXCEPT !.last_updated = now]

\* faulty variant: writing a completed flag discards the plan
update_state_dropping_plan(state, key, value) ==
    save_state(IF Len(key) = 1
                   THEN [state EXCEPT ![key[1]] = value]
               ELSE IF key[1] = "milestone_completed"
                   THEN [state EXCEPT ![key[1]][key[2]] = value,
                                      !.reproduction_plan = EmptyMap]
               ELSE [state EXCEPT ![key[1]][key[2]] = value])

\* ProjectState.update_state; key is <<name>> or <<family, milestone id>>
update_state(state, key, value) ==
    save_state(IF Len(key) = 1
                   THEN [state EXCEPT ![key[1]] = value]
                   ELSE [state EXCEPT ![key[1]][key[2]] = value])

\* f"milestone_{id}_progress" and its siblings
progress_key(id) == <<"milestone_progress", id>>
overall_progress_key(id) == <<"milestone_overall_progress", id>>
completed_key(id) == <<"milestone_completed", id>>

Active == current_project # <<>>
State == current_project[1].state
Dir == current_project[1].project_dir

\* the ProjectState object after its state became st (st is on disk too)
Saved(st) ==
    /\ current_project' = <<[project_dir |-> Dir, state |-> st]>>
    /\ disk' = [disk EXCEPT ![Dir] = <<st>>]

----------------------------------------------------------------------------
(* GitManager: a repository is its branches and whether the work tree      *)
(* differs from HEAD; files are the generated artifacts outside the state  *)
(* file.  Every save_state changes the state file (last_updated has        *)
(* microsecond resolution), so a save leaves the tree dirty.  locked: git   *)
(* rejects commit and checkout (another git process holds index.lock).     *)

NoRepo == [branches |-> {}, dirty |-> FALSE, files |-> EmptyMap,
           locked |-> FALSE]

Touch(r) == [r EXCEPT !.dirty = TRUE]

\* writing content to a generated file
WriteFile(r, name, content) ==
    IF name \in DOMAIN r.files /\ r.files[name] = content
        THEN r
        ELSE [r EXCEPT !.dirty = TRUE,
                       !.files = [f \in DOMAIN r.files \cup {name} |->
                                     IF f = name THEN content ELSE r.files[f]]]

\* auto_commit: git add . ; git commit (check=True): with nothing to commit,
\* or when git rejects the commit, git exits non-zero and CalledProcessError
\* propagates
CommitOk(r) == r.dirty /\ ~r.locked
auto_commit(r) == [r EXCEPT !.dirty = FALSE]

\* create_branch: git checkout -b (check=True) fails on an existing branch
\* and when git rejects the checkout
BranchOk(r, branch_name) == branch_name \notin r.branches /\ ~r.locked
create_branch(r, branch_name) ==
    [r EXCEPT !.branches = r.branches \cup {branch_name}]

----------------------------------------------------------------------------
(* Results of a tool call *)

Resp(op, kind, msg, arg, out, out_id, git) ==
    [op |-> op, kind |-> kind, msg |-> msg, arg |-> arg,
     out |-> out, out_id |-> out_id, git |-> git]

\* faulty variant: the early return goes through save_state
GuideSaving(op, msg, arg) ==
    /\ resp' = Resp(op, "guide", msg, arg, None, None, "none")
    /\ IF current_project # <<>>
          THEN /\ current_project' =
                      <<[current_project[1] EXCEPT
                             !.state = save_state(current_project[1].state)]>>
               /\ disk' = [disk EXCEPT ![current_project[1].project_dir] =
                               <<save_state(current_project[1].state)>>]
          ELSE UNCHANGED <<current_project, disk>>
    /\ UNCHANGED <<current_git_manager, repo, now, calls, tracked, awaiting>>

\* a return before anything was touched
Guide(op, msg, arg) ==
    /\ resp' = Resp(op, "guide", msg, arg, None, None, "none")
    /\ UNCHANGED <<current_project, current_git_manager, disk, repo, now,
                   calls, tracked, awaiting>>

Init ==
    /\ current_project = <<>>
    /\ current_git_manager = <<>>
    /\ disk = [p \in Paths |-> <<>>]
    /\ repo = [p \in Paths |-> NoRepo]
    /\ now = 0
    /\ resp = Resp("none", "none", None, None, None, None, "none")
    /\ calls = [p \in Paths |-> [id \in MilestoneIdInputs |-> <<>>]]
    /\ tracked = [p \in Paths |-> {}]
    /\ awaiting = <<>>

\* time passes between two reads of the clock
Tick ==
    /\ now < MaxTime
    /\ now' = now + 1
    /\ UNCHANGED <<current_project, current_git_manager, disk, repo, resp,
                   calls, tracked, awaiting>>

----------------------------------------------------------------------------
(* handle_call_tool: one action per tool *)

\* initialize_project
initialize_project(project_name, project_dir) ==
    LET path == ProjectPath(project_dir, project_name)
        st == update_state(load_state(path), <<"project_name">>, project_name)
        \* init_repo writes .gitignore, the state file was just saved
        tree == Touch(WriteFile(repo[path], <<".gitignore">>, "gitignore"))
    IN  /\ current_project' = <<[project_dir |-> path, state |-> st]>>
        /\ disk' = [disk EXCEPT ![path] = <<st>>]
        /\ current_git_manager' = <<path>>
        /\ IF CommitOk(tree)
              THEN /\ repo' = [repo EXCEPT ![path] = auto_commit(tree)]
                   /\ resp' = Resp("initialize_project", "ok", "initialized",
                                   None, None, None, "commit")
              ELSE /\ repo' = [repo EXCEPT ![path] = tree]
                   /\ resp' = Resp("initialize_project", "raised",
                                   "CalledProcessError", None, None, None,
                                   "commit_failed")
        /\ UNCHANGED <<now, calls, tracked, awaiting>>

\* search_paper: no check of current_project
search_paper(query, source, arxiv_results) ==
    LET arxiv == IF source \in {"arxiv", "both"} THEN arxiv_results ELSE <<>>
        bing == IF source \in {"bing_academic", "both"}
                    THEN <<[title |-> <<"related paper", query>>,
                            authors |-> <<"Author et al.">>,
                            summary |-> "summary", pdf_url |-> None,
                            source |-> "Bing Academic"]>>
                    ELSE <<>>
        results == arxiv \o bing
    IN  /\ resp' = IF results = <<>>
                      THEN Resp("search_paper", "ok", "no_results", None,
                                None, None, "none")
                      ELSE Resp("search_paper", "ok", "results", None,
                                None, None, "none")
        /\ UNCHANGED <<current_project, current_git_manager, disk, repo, now,
                       calls, tracked, awaiting>>

\* PaperFetcher.extract_pdf_content
extract_pdf_content(pdf_path_or_url) ==
    IF pdf_path_or_url \in HttpLocators
        THEN <<"url content", pdf_path_or_url>>
        ELSE <<"file content", pdf_path_or_url>>

\* analyze_paper from the end of its awaits (search_arxiv,
\* extract_pdf_content) on: current_project is the global at that moment
PaperAnalysed(input, input_type, arxiv_results) ==
    /\ IF /\ input_type = "title"
          /\ ~(arxiv_results # <<>> /\ arxiv_results[1].pdf_url # None)
          THEN /\ resp' = Resp("analyze_paper", "guide", "no_pdf_link", None,
                               None, None, "none")
               /\ UNCHANGED <<current_project, disk, repo>>
          ELSE
            LET paper_content ==
                    IF input_type \in {"url", "pdf"}
                        THEN extract_pdf_content(input)
                    ELSE IF input_type = "title"
                        THEN extract_pdf_content(arxiv_results[1].pdf_url)
                    ELSE <<>>
                paper_info ==
                    [title |-> IF input_type = "title" THEN input
                               ELSE "extracted title",
                     content |-> paper_content,
                     method |-> "method to analyse",
                     contributions |-> "contributions to analyse",
                     experiments |-> "experiments to analyse",
                     analyzed_at |-> now]
                st == update_state(State, <<"paper_info">>, paper_info)
            IN  /\ Saved(st)
                /\ repo' = [repo EXCEPT ![Dir] = Touch(@)]
                /\ resp' = Resp("analyze_paper", "ok", "analyzed", None, None,
                                None, "none")
    /\ UNCHANGED <<current_git_manager, now, calls, tracked>>

\* analyze_paper, no other call handled during its awaits
analyze_paper(input, input_type, arxiv_results) ==
    IF ~Active THEN Guide("analyze_paper", "initialize_project_first", None)
    ELSE /\ PaperAnalysed(input, input_type, arxiv_results)
         /\ UNCHANGED awaiting

\* analyze_paper up to its first await on the network: the check of
\* current_project has passed, the event loop may handle other calls
analyze_paper_begin(input, input_type) ==
    /\ Active
    /\ awaiting = <<>>
    /\ awaiting' = <<[input |-> input, input_type |-> input_type,
                      project_dir |-> Dir]>>
    /\ UNCHANGED <<current_project, current_git_manager, disk, repo, now,
                   resp, calls, tracked>>

\* ... and the same call resumed
analyze_paper_finish(arxiv_results) ==
    /\ awaiting # <<>>
    /\ PaperAnalysed(awaiting[1].input, awaiting[1].input_type, arxiv_results)
    /\ awaiting' = <<>>

\* faulty variant: empty responses are recorded as the profile
assess_user_background_recording(responses) ==
    IF ~Active
        THEN Guide("assess_user_background", "initialize_project_first", None)
    ELSE
        LET st == update_state(State, <<"user_profile">>, responses)
        IN  /\ Saved(st)
            /\ repo' = [repo EXCEPT ![Dir] = Touch(@)]
            /\ resp' = Resp("assess_user_background", "ok",
                            IF Falsy(responses) THEN "questions"
                            ELSE "profile_saved",
                            None, None, None, "none")
            /\ UNCHANGED <<current_git_manager, now, calls, tracked, awaiting>>

\* assess_user_background; responses is {} when the argument is absent
assess_user_background(responses) ==
    IF ~Active
        THEN Guide("assess_user_background", "initialize_project_first", None)
    ELSE IF Falsy(responses)
        THEN Guide("assess_user_background", "questions", None)
    ELSE
        LET st == update_state(State, <<"user_profile">>, responses)
        IN  /\ Saved(st)
            /\ repo' = [repo EXCEPT ![Dir] = Touch(@)]
            /\ resp' = Resp("assess_user_background", "ok", "profile_saved",
                            None, None, None, "none")
            /\ UNCHANGED <<current_git_manager, now, calls, tracked, awaiting>>

\* the commit that ends a handler, on the work tree it left
Commit(op, tree, msg, arg, out, out_id) ==
    IF CommitOk(tree)
        THEN /\ repo' = [repo EXCEPT ![Dir] = auto_commit(tree)]
             /\ resp' = Resp(op, "ok", msg, arg, out, out_id, "commit")
        ELSE /\ repo' = [repo EXCEPT ![Dir] = tree]
             /\ resp' = Resp(op, "raised", "CalledProcessError", arg, None,
                             None, "commit_failed")

\* faulty variant: the commit comes first, the state is saved only when it
\* succeeded
CommitThenSave(st, op, tree, msg, arg, out, out_id) ==
    /\ Commit(op, tree, msg, arg, out, out_id)
    /\ IF CommitOk(tree) THEN Saved(st)
                         ELSE UNCHANGED <<current_project, disk>>

\* the update_state calls of a handler, then its auto_commit
SaveThenCommit(st, op, tree, msg, arg, out, out_id) ==
    /\ Saved(st)
    /\ Commit(op, tree, msg, arg, out, out_id)

\* the environment of the git subprocesses: git starts rejecting commits
\* and checkouts in the project's repository
GitLocked ==
    /\ Active
    /\ ~repo[Dir].locked
    /\ repo' = [repo EXCEPT ![Dir].locked = TRUE]
    /\ UNCHANGED <<current_project, current_git_manager, disk, now, resp,
                   calls, tracked, awaiting>>

\* ... and accepts them again
GitUnlocked ==
    /\ Active
    /\ repo[Dir].locked
    /\ repo' = [repo EXCEPT ![Dir].locked = FALSE]
    /\ UNCHANGED <<current_project, current_git_manager, disk, now, resp,
                   calls, tracked, awaiting>>

\* generate_reproduction_plan
generate_reproduction_plan ==
    IF ~Active
        THEN Guide("generate_reproduction_plan", "initialize_project_first",
                   None)
    ELSE
        LET paper_info == State.paper_info
            user_profile == State.user_profile
        IN  IF Falsy(paper_info) \/ Falsy(user_profile)
                THEN Guide("generate_reproduction_plan",
                           "analysis_and_assessment_first", None)
            ELSE
                LET plan == generate_plan(paper_info, user_profile)
                    st1 == update_state(State, <<"reproduction_plan">>, plan)
                    st2 == update_state(st1, <<"current_stage">>,
                                        <<"planning_complete">>)
                    tree == WriteFile(Touch(repo[Dir]),
                                      <<"notes", "reproduction_plan.md">>, plan)
                IN  /\ SaveThenCommit(st2, "generate_reproduction_plan",
                                      tree, "plan_generated", None, None,
                                      None)
                    /\ UNCHANGED <<current_git_manager, now, calls, tracked,
                                   awaiting>>


\* start_milestone
start_milestone(milestone_id) ==
    IF ~Active
        THEN Guide("start_milestone", "initialize_project_first", milestone_id)
    ELSE IF FindMilestone(State.reproduction_plan, milestone_id) = 0
        THEN Guide("start_milestone", "milestone_not_found", milestone_id)
    ELSE
        LET st1 == update_state(State, <<"current_milestone">>, milestone_id)
            st2 == update_state(st1, <<"current_stage">>,
                                <<"milestone_", milestone_id>>)
            tree == Touch(repo[Dir])
            branch_name == <<"milestone-", Lower(milestone_id)>>
        IN  /\ Saved(st2)
            /\ IF BranchOk(tree, branch_name)
                  THEN /\ repo' = [repo EXCEPT
                                       ![Dir] = create_branch(tree, branch_name)]
                       /\ resp' = Resp("start_milestone", "ok", "guidance",
                                       milestone_id, None, None, "branch")
                  ELSE /\ repo' = [repo EXCEPT ![Dir] = tree]
                       /\ resp' = Resp("start_milestone", "raised",
                                       "CalledProcessError", milestone_id,
                                       None, None, "branch_failed")
            /\ UNCHANGED <<current_git_manager, now, calls, tracked, awaiting>>

\* the tasks of the plan's milestone with that id, [] when there is none
TasksOf(plan, milestone_id) ==
    IF FindMilestone(plan, milestone_id) = 0 THEN <<>>
    ELSE plan.milestones[FindMilestone(plan, milestone_id)].tasks

\* len([p for p in progress if p["status"] == "completed"])
CompletedCount(progress) ==
    Cardinality({i \in 1..Len(progress) : progress[i].status = "completed"})

\* confirm_step: the "next task" line of the response, None when absent
NextTask(plan, current_milestone_id, progress) ==
    LET tasks == TasksOf(plan, current_milestone_id)
        next_task_idx == CompletedCount(progress)
    IN  IF /\ FindMilestone(plan, current_milestone_id) # 0
           /\ Len(progress) < Len(tasks)
           /\ next_task_idx < Len(tasks)
            THEN tasks[next_task_idx + 1]
            ELSE None

\* faulty variant: a description already recorded is not appended again
AppendStepOnce(progress, step_record) ==
    IF \E i \in 1..Len(progress) : progress[i].step = step_record.step
        THEN progress ELSE Append(progress, step_record)

\* confirm_step: the list after progress.append(step_record)
AppendStep(progress, step_record) == Append(progress, step_record)

\* faulty variant: the milestone is marked completed with its last task
StepStateCompleting(state, current_milestone_id, progress) ==
    LET st == update_state(state, progress_key(current_milestone_id), progress)
    IN  IF CompletedCount(progress)
               >= Len(TasksOf(state.reproduction_plan, current_milestone_id))
            THEN update_state(st, completed_key(current_milestone_id), TRUE)
            ELSE st

\* confirm_step: the state after update_state(progress_key, progress)
StepState(state, current_milestone_id, progress) ==
    update_state(state, progress_key(current_milestone_id), progress)

\* faulty variant: the status is not looked at
IsCheckpointStepAnyStatus(step_description, status) ==
    \/ Contains(KeywordImplement, step_description)
    \/ Contains(KeywordFinish, step_description)

\* confirm_step: whether the step triggers auto_commit
IsCheckpointStep(step_description, status) ==
    /\ status = "completed"
    /\ \/ Contains(KeywordImplement, step_description)
       \/ Contains(KeywordFinish, step_description)

\* confirm_step; notes is "" when the argument is absent
confirm_step(step_description, status, notes) ==
    IF ~Active THEN Guide("confirm_step", "initialize_project_first", None)
    ELSE IF State.current_milestone = None
        THEN Guide("confirm_step", "start_milestone_first", None)
    ELSE
        LET current_milestone_id == State.current_milestone
            step_record == [step |-> step_description, status |-> status,
                            notes |-> notes, timestamp |-> now]
            progress == AppendStep(State.milestone_progress[current_milestone_id],
                                   step_record)
            st == StepState(State, current_milestone_id, progress)
            next == NextTask(st.reproduction_plan, current_milestone_id,
                             progress)
            tree == Touch(repo[Dir])
        IN  /\ calls' = [calls EXCEPT ![Dir][current_milestone_id] =
                             Append(@, <<step_description, status, notes>>)]
            /\ IF IsCheckpointStep(step_description, status)
                  THEN SaveThenCommit(st, "confirm_step", tree,
                                      "step_confirmed", current_milestone_id,
                                      next, None)
                  ELSE /\ Saved(st)
                       /\ repo' = [repo EXCEPT ![Dir] = tree]
                       /\ resp' = Resp("confirm_step", "ok", "step_confirmed",
                                       current_milestone_id, next, None,
                                       "none")
            /\ UNCHANGED <<current_git_manager, now, tracked, awaiting>>

\* generate_study_materials
generate_study_materials(topic, format_type) ==
    IF ~Active
        THEN Guide("generate_study_materials", "initialize_project_first",
                   None)
    ELSE
        LET summary_file == <<"notes", topic, "summary.md">>
            qa_file == <<"notes", topic, "qa.md">>
            tree0 == Touch(repo[Dir])
            tree1 == IF format_type \in {"summary", "both"}
                         THEN WriteFile(tree0, summary_file, topic) ELSE tree0
            tree2 == IF format_type \in {"qa", "both"}
                         THEN WriteFile(tree1, qa_file, topic) ELSE tree1
            materials ==
                (IF format_type \in {"summary", "both"}
                     THEN <<summary_file>> ELSE <<>>)
                \o (IF format_type \in {"qa", "both"}
                        THEN <<qa_file>> ELSE <<>>)
            note == [topic |-> topic, format |-> format_type,
                     files |-> materials, created_at |-> now]
            st == update_state(State, <<"learning_notes">>,
                               Append(State.learning_notes, note))
        IN  /\ SaveThenCommit(st, "generate_study_materials", tree2,
                              "materials", None, None, None)
            /\ UNCHANGED <<current_git_manager, now, calls, tracked, awaiting>>

\* setup_environment: auto_install only changes the text returned
setup_environment(auto_install) ==
    IF ~Active THEN Guide("setup_environment", "initialize_project_first", None)
    ELSE
        LET env_setup == Get(State.reproduction_plan, "environment_setup",
                             EmptyMap)
        IN  IF Falsy(env_setup)
                THEN Guide("setup_environment", "generate_plan_first", None)
            ELSE
                LET requirements == env_setup.core_packages
                                    \o env_setup.xai_packages
                                    \o env_setup.optional_packages
                    tree == WriteFile(WriteFile(repo[Dir], <<"setup_env.sh">>,
                                                env_setup),
                                      <<"requirements.txt">>, requirements)
                IN  /\ Commit("setup_environment", tree,
                              IF auto_install THEN "installed_simulated"
                              ELSE "run_script_manually", None, None, None)
                    /\ UNCHANGED <<current_project, current_git_manager,
                                   disk, now, calls, tracked, awaiting>>


\* faulty variant: the percentage is clamped to 0..100
ClampedPercentage(progress_percentage) ==
    IF progress_percentage > 100 THEN 100
    ELSE IF progress_percentage < 0 THEN 0
    ELSE progress_percentage

\* track_progress: the percentage written to the progress entry
StoredPercentage(progress_percentage) == progress_percentage

\* track_progress: the test that marks the milestone completed
ReachesCompletion(progress_percentage) == progress_percentage >= 100

\* faulty variant: a percentage below 100 writes the completed flag back
\* to false
track_progress_resetting(milestone_id, progress_percentage, notes) ==
    IF ~Active
        THEN Guide("track_progress", "initialize_project_first", milestone_id)
    ELSE
        LET st1 == update_state(State, overall_progress_key(milestone_id),
                       [percentage |-> StoredPercentage(progress_percentage),
                        notes |-> notes, updated_at |-> now])
            st2 == update_state(st1, completed_key(milestone_id), TRUE)
            st3 == update_state(st1, completed_key(milestone_id), FALSE)
            tree == Touch(repo[Dir])
        IN  /\ tracked' = [tracked EXCEPT ![Dir] =
                              IF progress_percentage >= 100
                                  THEN @ \cup {milestone_id} ELSE @]
            /\ IF ReachesCompletion(progress_percentage)
                  THEN SaveThenCommit(st2, "track_progress", tree,
                                      "milestone_completed", milestone_id,
                                      None, None)
                  ELSE /\ Saved(st3)
                       /\ repo' = [repo EXCEPT ![Dir] = tree]
                       /\ resp' = Resp("track_progress", "ok",
                                       "progress_updated", milestone_id, None,
                                       None, "none")
            /\ UNCHANGED <<current_git_manager, now, calls, awaiting>>

\* track_progress; notes is "" when the argument is absent
track_progress(milestone_id, progress_percentage, notes) ==
    IF ~Active
        THEN Guide("track_progress", "initialize_project_first", milestone_id)
    ELSE
        LET st1 == update_state(State, overall_progress_key(milestone_id),
                       [percentage |-> StoredPercentage(progress_percentage),
                        notes |-> notes, updated_at |-> now])
            st2 == update_state(st1, completed_key(milestone_id), TRUE)
            tree == Touch(repo[Dir])
        IN  /\ tracked' = [tracked EXCEPT ![Dir] =
                              IF progress_percentage >= 100
                                  THEN @ \cup {milestone_id} ELSE @]
            /\ IF ReachesCompletion(progress_percentage)
                  THEN SaveThenCommit(st2, "track_progress", tree,
                                      "milestone_completed", milestone_id,
                                      None, None)
                  ELSE /\ Saved(st1)
                       /\ repo' = [repo EXCEPT ![Dir] = tree]
                       /\ resp' = Resp("track_progress", "ok",
                                       "progress_updated", milestone_id, None,
                                       None, "none")
            /\ UNCHANGED <<current_git_manager, now, calls, awaiting>>

----------------------------------------------------------------------------
(* The same handlers when a save_state raises: open(state_file, 'w')       *)
(* fails with OSError, the file keeps what the previous save wrote.        *)
(* update_state has already assigned the key and save_state last_updated,  *)
(* so the object in memory holds the update whose write failed.            *)

\* updates is a sequence of <<key, value>>, applied in order by update_state
RECURSIVE ApplyUpdates(_, _)
ApplyUpdates(state, updates) ==
    IF updates = <<>> THEN state
    ELSE ApplyUpdates(update_state(state, updates[1][1], updates[1][2]),
                      Tail(updates))

\* the handler's update_state calls up to the one whose write fails; the
\* exception leaves the handler before any git call
WriteFails(op, arg, updates, failing) ==
    /\ current_project' =
           <<[project_dir |-> Dir,
              state |-> ApplyUpdates(State, SubSeq(updates, 1, failing))]>>
    /\ IF failing = 1
          THEN UNCHANGED <<disk, repo>>
          ELSE /\ disk' = [disk EXCEPT ![Dir] =
                              <<ApplyUpdates(State,
                                             SubSeq(updates, 1, failing - 1))>>]
               /\ repo' = [repo EXCEPT ![Dir] = Touch(@)]
    /\ resp' = Resp(op, "raised", "OSError", arg, None, None, "none")

\* generate_reproduction_plan, the failing-th write fails
generate_reproduction_plan_write_fails(failing) ==
    /\ Active
    /\ ~Falsy(State.paper_info)
    /\ ~Falsy(State.user_profile)
    /\ WriteFails("generate_reproduction_plan", None,
                  << <<<<"reproduction_plan">>,
                       generate_plan(State.paper_info, State.user_profile)>>,
                     <<<<"current_stage">>, <<"planning_complete">>>> >>,
                  failing)
    /\ UNCHANGED <<current_git_manager, now, calls, tracked, awaiting>>

\* start_milestone, the failing-th write fails
start_milestone_write_fails(milestone_id, failing) ==
    /\ Active
    /\ FindMilestone(State.reproduction_plan, milestone_id) # 0
    /\ WriteFails("start_milestone", milestone_id,
                  << <<<<"current_milestone">>, milestone_id>>,
                     <<<<"current_stage">>, <<"milestone_", milestone_id>>>> >>,
                  failing)
    /\ UNCHANGED <<current_git_manager, now, calls, tracked, awaiting>>

\* track_progress with progress_percentage >= 100, the failing-th write fails
track_progress_write_fails(milestone_id, progress_percentage, notes, failing) ==
    /\ Active
    /\ ReachesCompletion(progress_percentage)
    /\ WriteFails("track_progress", milestone_id,
                  << <<overall_progress_key(milestone_id),
                       [percentage |-> StoredPercentage(progress_percentage),
                        notes |-> notes, updated_at |-> now]>>,
                     <<completed_key(milestone_id), TRUE>> >>,
                  failing)
    /\ tracked' = [tracked EXCEPT ![Dir] = @ \cup {milestone_id}]
    /\ UNCHANGED <<current_git_manager, now, calls, awaiting>>

\* faulty variant: the missing plan is tested before paper and profile
RecommendationPlanFirst(state) ==
    IF state.current_milestone # None
        THEN <<"current_task", state.current_milestone>>
    ELSE IF Falsy(state.reproduction_plan)
        THEN <<"generate_reproduction_plan", None>>
    ELSE IF Falsy(state.paper_info) THEN <<"analyze_paper", None>>
    ELSE IF Falsy(state.user_profile) THEN <<"assess_user_background", None>>
    ELSE <<"start_milestone", None>>

\* get_project_status: the section that closes the report, as
\* <<recommendation, milestone id>>
Recommendation(state) ==
    LET paper_info == state.paper_info
        user_profile == state.user_profile
        plan == state.reproduction_plan
        milestones == Get(plan, "milestones", <<>>)
        open == {i \in 1..Len(milestones) :
                     ~state.milestone_completed[milestones[i].id]}
    IN  IF state.current_milestone # None
            THEN <<"current_task", state.current_milestone>>
        ELSE IF Falsy(paper_info) THEN <<"analyze_paper", None>>
        ELSE IF Falsy(user_profile) THEN <<"assess_user_background", None>>
        ELSE IF Falsy(plan) THEN <<"generate_reproduction_plan", None>>
        ELSE IF open # {}
            THEN <<"start_milestone",
                   milestones[CHOOSE i \in open : \A j \in open : i <= j].id>>
        ELSE <<"all_completed", None>>

\* faulty variant: the report is written back through save_state
get_project_status_saving ==
    IF ~Active THEN Guide("get_project_status", "initialize_project_first", None)
    ELSE
        /\ Saved(save_state(State))
        /\ resp' = Resp("get_project_status", "ok", "status", None,
                        Recommendation(State)[1], Recommendation(State)[2],
                        "none")
        /\ UNCHANGED <<current_git_manager, repo, now, calls, tracked,
                       awaiting>>

\* get_project_status
get_project_status ==
    IF ~Active THEN Guide("get_project_status", "initialize_project_first", None)
    ELSE
        /\ resp' = Resp("get_project_status", "ok", "status", None,
                        Recommendation(State)[1], Recommendation(State)[2],
                        "none")
        /\ UNCHANGED <<current_project, current_git_manager, disk, repo, now,
                       calls, tracked, awaiting>>

----------------------------------------------------------------------------
(* The calls a client makes *)

ResponseInputs ==
    { EmptyMap,
      [preferred_framework |-> "PyTorch", experience_level |-> "beginner"] }

Profile == [preferred_framework |-> "ObscureFW", experience_level |-> "expert"]

MilestoneInputs == {"M1", "M2", "MX"}
TrackInputs == {"M1", "MX"}
PercentageInputs == {-5, 50, 100, 150}

\* the tools that begin with the check of current_project
ProjectTools ==
    {"analyze_paper", "assess_user_background", "generate_reproduction_plan",
     "start_milestone", "confirm_step", "generate_study_materials",
     "setup_environment", "track_progress", "get_project_status"}

\* every tool but initialize_project
OtherTools == ProjectTools \cup {"search_paper"}

\* <<step_description, status, notes>>
StepInputs ==
    { << <<"shi", "xian", "A">>, "completed", "" >>,
      << <<"A">>, "stuck", "n1" >>,
      << <<"A">>, "need_help", "" >> }

StepBound(max) ==
    Active => Len(State.milestone_progress[
                      IF State.current_milestone = None THEN "MX"
                      ELSE State.current_milestone]) < max

(* The whole workflow, every tool, with the clock *)
Next ==
    \/ Tick
    \/ initialize_project("p1", "work")
    \/ \E source \in {"arxiv", "both"}, r \in ArxivResults :
           search_paper("query", source, r)
    \/ \E r \in ArxivResults : analyze_paper("paper title", "title", r)
    \/ \E responses \in ResponseInputs : assess_user_background(responses)
    \/ generate_reproduction_plan
    \/ \E id \in {"M1", "MX"} : start_milestone(id)
    \/ /\ StepBound(MaxFlowSteps)
       /\ confirm_step(<<"wan", "cheng">>, "completed", "")
    \/ /\ Active => Len(State.learning_notes) < MaxNotes
       /\ generate_study_materials("topic", "both")
    \/ \E auto_install \in BOOLEAN : setup_environment(auto_install)
    \/ track_progress("M1", 100, "")
    \/ get_project_status

Spec == Init /\ [][Next]_vars

(* Milestones: starting, tracking and completing them *)
NextMilestone ==
    \/ initialize_project("p1", "work")
    \/ analyze_paper("http://host/paper.pdf", "url", <<>>)
    \/ assess_user_background(Profile)
    \/ generate_reproduction_plan
    \/ \E id \in MilestoneInputs : start_milestone(id)
    \/ /\ StepBound(MaxFlowSteps)
       /\ confirm_step(<<"A">>, "completed", "")
    \/ \E id \in TrackInputs, p \in PercentageInputs :
           track_progress(id, p, "n")
    \/ get_project_status

SpecMilestone == Init /\ [][NextMilestone]_vars

(* Steps: the records of one milestone *)
NextSteps ==
    \/ initialize_project("p1", "work")
    \/ analyze_paper("http://host/paper.pdf", "url", <<>>)
    \/ assess_user_background(Profile)
    \/ generate_reproduction_plan
    \/ start_milestone("M1")
    \/ \E s \in StepInputs :
           /\ StepBound(MaxSteps)
           /\ confirm_step(s[1], s[2], s[3])
    \/ track_progress("M1", 100, "")

SpecSteps == Init /\ [][NextSteps]_vars

(* Checkpoints: the handlers that commit or branch, with a git that may    *)
(* reject                                                                  *)
NextCheckpoint ==
    \/ initialize_project("p1", "work")
    \/ analyze_paper("http://host/paper.pdf", "url", <<>>)
    \/ assess_user_background(Profile)
    \/ generate_reproduction_plan
    \/ start_milestone("M1")
    \/ /\ StepBound(MaxFlowSteps)
       /\ confirm_step(<<"wan", "cheng">>, "completed", "")
    \/ /\ Active => Len(State.learning_notes) < MaxNotes
       /\ generate_study_materials("topic", "summary")
    \/ track_progress("M1", 100, "")
    \/ GitLocked
    \/ GitUnlocked

SpecCheckpoint == Init /\ [][NextCheckpoint]_vars

\* which of a handler's two writes fails
FailingWrites == {1, 2}

(* Storage: the handlers that write twice, with a state file whose write   *)
(* may fail                                                                *)
NextStorage ==
    \/ initialize_project("p1", "work")
    \/ analyze_paper("http://host/paper.pdf", "url", <<>>)
    \/ assess_user_background(Profile)
    \/ generate_reproduction_plan
    \/ start_milestone("M1")
    \/ \E p \in {50, 100} : track_progress("M1", p, "")
    \/ \E failing \in FailingWrites :
           generate_reproduction_plan_write_fails(failing)
    \/ \E failing \in FailingWrites :
           start_milestone_write_fails("M1", failing)
    \/ \E failing \in FailingWrites :
           track_progress_write_fails("M1", 100, "", failing)

SpecStorage == Init /\ [][NextStorage]_vars

(* Interleaving: two projects, and calls handled while analyze_paper   *)
(* awaits                                                               *)
NextInterleave ==
    \/ Tick
    \/ \E project_name \in ProjectNameInputs :
           initialize_project(project_name, "work")
    \/ analyze_paper_begin("http://host/paper.pdf", "url")
    \/ analyze_paper_finish(<<>>)
    \/ assess_user_background(Profile)

SpecInterleave == Init /\ [][NextInterleave]_vars

\* step descriptions with either keyword and with the characters of a
\* keyword apart (no keyword); every status
DescriptionInputs ==
    { <<"shi", "xian", "A">>, <<"A", "wan", "cheng">>,
      <<"shi", "A", "xian">> }
StatusInputs == {"completed", "stuck", "need_help"}

(* Confirming: every kind of step on two milestones *)
NextConfirm ==
    \/ initialize_project("p1", "work")
    \/ analyze_paper("http://host/paper.pdf", "url", <<>>)
    \/ assess_user_background(Profile)
    \/ generate_reproduction_plan
    \/ \E id \in {"M1", "M2"} : start_milestone(id)
    \/ \E d \in DescriptionInputs, status \in StatusInputs :
           /\ StepBound(MaxFlowSteps)
           /\ confirm_step(d, status, "")

SpecConfirm == Init /\ [][NextConfirm]_vars

\* answers to the questionnaire: the offered options, other strings, and
\* questions left unanswered
FrameworkInputs == {"PyTorch", "TensorFlow", "JAX", "Keras", "pytorch",
                    "ObscureFW"}
ExperienceInputs == {"beginner", "intermediate", "advanced", "expert", "guru"}
PlanProfiles ==
    {[preferred_framework |-> f, experience_level |-> e] :
         f \in FrameworkInputs, e \in ExperienceInputs}
    \cup {[preferred_framework |-> f] : f \in FrameworkInputs}
    \cup {[experience_level |-> e] : e \in ExperienceInputs}
    \cup {[hardware |-> "gpu"]}

(* Planning: the plan generated for every profile *)
NextPlan ==
    \/ initialize_project("p1", "work")
    \/ analyze_paper("http://host/paper.pdf", "url", <<>>)
    \/ \E r \in ArxivResults : analyze_paper("paper title", "title", r)
    \/ \E responses \in PlanProfiles \cup {EmptyMap} :
           assess_user_background(responses)
    \/ generate_reproduction_plan

SpecPlan == Init /\ [][NextPlan]_vars

----------------------------------------------------------------------------
(* Properties *)

\* the ids of the milestones a plan holds
MilestoneIdsOf(plan) ==
    LET milestones == Get(plan, "milestones", <<>>)
    IN  {milestones[i].id : i \in 1..Len(milestones)}

\* a step sequence without its timestamps
CallsOf(progress) ==
    [i \in 1..Len(progress) |->
        <<progress[i].step, progress[i].status, progress[i].notes>>]

\* C1: the next task a confirm_step call reports is the task at index n, the
\* number of completed records of the active milestone, whenever n is less
\* than the milestone's task count
C1_NextTaskByCompletedCount ==
    (Active /\ resp.op = "confirm_step" /\ resp.kind = "ok") =>
        LET tasks == TasksOf(State.reproduction_plan, resp.arg)
            n == CompletedCount(State.milestone_progress[resp.arg])
        IN  n < Len(tasks) => resp.out = tasks[n + 1]

\* C2: the step records stored for a milestone are the successful
\* confirm_step calls made while it was active: as many, in call order, with
\* description, status and notes as passed, repeated descriptions kept
C2_StepRecordsAreTheCalls ==
    /\ \A p \in Paths : \A id \in MilestoneIdInputs :
           disk[p] # <<>> =>
               CallsOf(disk[p][1].milestone_progress[id]) = calls[p][id]
    /\ Active => \A id \in MilestoneIdInputs :
           CallsOf(State.milestone_progress[id]) = calls[Dir][id]

\* C2 witness: three calls recorded, the first two with the same description
C2_Witness ==
    /\ Active
    /\ resp.op = "confirm_step"
    /\ Len(State.milestone_progress["M1"]) = 3
    /\ State.milestone_progress["M1"][1].step
           = State.milestone_progress["M1"][2].step
    /\ State.milestone_progress["M1"][3].notes = "n1"

\* C3: a milestone is marked completed only if track_progress was called for
\* it with a percentage of at least 100; confirm_step never marks it
C3_CompletedOnlyByTrackProgress ==
    /\ \A p \in Paths : \A id \in MilestoneIdInputs :
           (disk[p] # <<>> /\ disk[p][1].milestone_completed[id])
               => id \in tracked[p]
    /\ Active => \A id \in MilestoneIdInputs :
           State.milestone_completed[id] => id \in tracked[Dir]

\* C3 witness: every task of M1 confirmed completed, M1 not marked completed
C3_Witness ==
    /\ Active
    /\ resp.op = "confirm_step"
    /\ CompletedCount(State.milestone_progress["M1"])
           = Len(TasksOf(State.reproduction_plan, "M1"))
    /\ Len(TasksOf(State.reproduction_plan, "M1")) > 0
    /\ ~State.milestone_completed["M1"]


\* C4: track_progress stores the percentage as given, negative or above 100
\* included, and marks the milestone completed exactly when it is >= 100,
\* whatever the milestone's records and whether it was started
C4_TrackProgressStoresAsGiven ==
    [][\A id \in TrackInputs, p \in PercentageInputs :
           (Active /\ track_progress(id, p, "n")) =>
               /\ State'.milestone_overall_progress[id].percentage = p
               /\ State'.milestone_overall_progress[id].notes = "n"
               /\ State'.milestone_completed[id]
                      = (p >= 100 \/ State.milestone_completed[id])
               /\ disk'[Dir] = <<State'>>]_vars

\* C4 witness: 150 stored and M1 completed, with no record and never started
C4_Witness ==
    /\ Active
    /\ resp.op = "track_progress"
    /\ ~Falsy(State.milestone_overall_progress["M1"])
    /\ State.milestone_overall_progress["M1"].percentage = 150
    /\ State.milestone_completed["M1"]
    /\ State.milestone_progress["M1"] = <<>>
    /\ <<"milestone-", "m1">> \notin repo[Dir].branches

\* the call that produced resp' lacked its prerequisite
MissingPrerequisite ==
    \/ /\ resp'.op = "generate_reproduction_plan"
       /\ Active
       /\ Falsy(State.paper_info) \/ Falsy(State.user_profile)
    \/ /\ resp'.op = "confirm_step"
       /\ Active
       /\ State.current_milestone = None
    \/ /\ resp'.op = "setup_environment"
       /\ Active
       /\ Falsy(State.reproduction_plan)
    \/ /\ resp'.op \in ProjectTools
       /\ ~Active

\* C5: a call whose prerequisite is missing returns a guiding message and
\* changes neither the state in memory nor the state file, last_updated
\* included
C5_MissingPrerequisiteChangesNothing ==
    [][MissingPrerequisite =>
           /\ resp'.kind = "guide"
           /\ resp'.msg \in {"initialize_project_first",
                             "analysis_and_assessment_first",
                             "start_milestone_first", "generate_plan_first"}
           /\ current_project' = current_project
           /\ disk' = disk]_vars

\* C5 witness: plan generation refused for the missing profile, after the
\* clock moved past the last save
C5_Witness ==
    /\ Active
    /\ resp.op = "generate_reproduction_plan"
    /\ resp.msg = "analysis_and_assessment_first"
    /\ ~Falsy(State.paper_info)
    /\ Falsy(State.user_profile)
    /\ State.last_updated < now
    /\ disk[Dir] = <<State>>

\* C6: start_milestone with an id the plan does not hold returns not-found,
\* changes no state and creates no branch; with an id of the plan it sets
\* current_milestone and current_stage
C6_StartMilestoneChecksTheId ==
    [][\A id \in MilestoneInputs :
           (Active /\ start_milestone(id)) =>
               IF id \notin MilestoneIdsOf(State.reproduction_plan)
                   THEN /\ resp'.msg = "milestone_not_found"
                        /\ resp'.git = "none"
                        /\ current_project' = current_project
                        /\ disk' = disk
                        /\ repo' = repo
                   ELSE /\ State'.current_milestone = id
                        /\ State'.current_stage = <<"milestone_", id>>
                        /\ disk'[Dir] = <<State'>>]_vars

\* C6 witness: an unknown id refused while M1 stays the active milestone
C6_Witness ==
    /\ Active
    /\ resp.op = "start_milestone"
    /\ resp.msg = "milestone_not_found"
    /\ resp.arg = "MX"
    /\ ~Falsy(State.reproduction_plan)
    /\ State.current_milestone = "M1"
    /\ State.current_stage = <<"milestone_", "M1">>

\* C7: every id with a progress entry or a completed flag is the id of a
\* milestone of the plan
C7_ProgressOnlyForPlanMilestones ==
    Active => \A id \in MilestoneIdInputs :
        (\/ ~Falsy(State.milestone_overall_progress[id])
         \/ State.milestone_completed[id])
            => id \in MilestoneIdsOf(State.reproduction_plan)

\* C8: start_milestone on the active or on a completed milestone succeeds
\* and leaves the state of a single start, records and flags untouched
C8_RestartSucceeds ==
    [][\A id \in MilestoneInputs :
           (/\ Active
            /\ id \in MilestoneIdsOf(State.reproduction_plan)
            /\ State.current_milestone = id \/ State.milestone_completed[id]
            /\ start_milestone(id)) =>
               /\ resp'.kind = "ok"
               /\ resp'.msg = "guidance"
               /\ State'.current_milestone = id
               /\ State'.current_stage = <<"milestone_", id>>
               /\ State'.milestone_progress = State.milestone_progress
               /\ State'.milestone_completed = State.milestone_completed]_vars

\* C9: with no project active, every tool but initialize_project returns the
\* precondition message
C9_NoProjectNoOperation ==
    (~Active /\ resp.op \in OtherTools) =>
        /\ resp.kind = "guide"
        /\ resp.msg = "initialize_project_first"

\* C10: the recommendation of get_project_status follows the priority
\* no paper, then no profile, then no plan; with a paper and neither profile
\* nor plan it is the background assessment
C10_Expected(state) ==
    IF Falsy(state.paper_info) THEN "analyze_paper"
    ELSE IF Falsy(state.user_profile) THEN "assess_user_background"
    ELSE "generate_reproduction_plan"

C10_RecommendationPriority ==
    (Active /\ Falsy(State.reproduction_plan)) =>
        /\ Recommendation(State)[1] = C10_Expected(State)
        /\ (resp.op = "get_project_status" /\ resp.kind = "ok")
               => resp.out = C10_Expected(State)

\* C10 witness: status asked with a paper and without profile and plan
C10_Witness ==
    /\ Active
    /\ resp.op = "get_project_status"
    /\ ~Falsy(State.paper_info)
    /\ Falsy(State.user_profile)
    /\ Falsy(State.reproduction_plan)
    /\ resp.out = "assess_user_background"

\* C11: with paper, profile and plan present, get_project_status closes its
\* report with the recommendation "start milestone X" for the first
\* milestone of the plan whose completed flag is false, or "all completed"
\* when every milestone is completed, whatever start_milestone, confirm_step
\* and track_progress calls came before.
C11_Expected(state) ==
    LET milestones == state.reproduction_plan.milestones
        open == {i \in 1..Len(milestones) :
                     ~state.milestone_completed[milestones[i].id]}
    IN  IF open # {}
            THEN <<"start_milestone",
                   milestones[CHOOSE i \in open : \A j \in open : i <= j].id>>
            ELSE <<"all_completed", None>>

C11_RecommendsFirstOpenMilestone ==
    (/\ Active
     /\ resp.op = "get_project_status"
     /\ resp.kind = "ok"
     /\ ~Falsy(State.paper_info)
     /\ ~Falsy(State.user_profile)
     /\ ~Falsy(State.reproduction_plan))
        => <<resp.out, resp.out_id>> = C11_Expected(State)

\* C12: get_project_status is a projection: the step that answers it leaves
\* the project in memory, the state file (last_updated included) and the
\* repository as they were, and makes no commit.
C12_StatusChangesNothing ==
    [][(resp'.op = "get_project_status" /\ now' = now)
          => /\ UNCHANGED <<current_project, current_git_manager, disk, repo>>
             /\ resp'.git = "none"]_vars

C12_Witness ==
    /\ Active
    /\ resp.op = "get_project_status"
    /\ resp.kind = "ok"
    /\ State.last_updated < now
    /\ disk[Dir] = <<State>>
    /\ ~repo[Dir].dirty

\* C13: in every handler that ends with a commit or a branch creation, the
\* update_state calls come first: when git rejects the commit or the
\* branch, the state file already holds the whole effect of the call.
CheckpointFailed(r) == r.git \in {"commit_failed", "branch_failed"}

C13_SavedBeforeCheckpoint ==
    [][(/\ CheckpointFailed(resp')
        /\ \A p \in Paths : repo'[p].locked = repo[p].locked)
          => /\ Active'
             /\ disk'[Dir'] = <<State'>>
             /\ CASE resp'.op = "initialize_project" ->
                        State'.project_name # None
                  [] resp'.op = "generate_reproduction_plan" ->
                        /\ State'.reproduction_plan =
                               generate_plan(State.paper_info,
                                             State.user_profile)
                        /\ State'.current_stage = <<"planning_complete">>
                  [] resp'.op = "start_milestone" ->
                        /\ State'.current_milestone = resp'.arg
                        /\ State'.current_stage = <<"milestone_", resp'.arg>>
                  [] resp'.op = "confirm_step" ->
                        Len(State'.milestone_progress[resp'.arg]) =
                            Len(State.milestone_progress[resp'.arg]) + 1
                  [] resp'.op = "generate_study_materials" ->
                        Len(State'.learning_notes) =
                            Len(State.learning_notes) + 1
                  [] resp'.op = "track_progress" ->
                        /\ State'.milestone_completed[resp'.arg]
                        /\ ~Falsy(State'.milestone_overall_progress[resp'.arg])
                  [] OTHER -> FALSE]_vars

C13_Witness ==
    /\ Active
    /\ resp.op = "track_progress"
    /\ resp.git = "commit_failed"
    /\ disk[Dir] = <<State>>
    /\ State.milestone_completed["M1"]

\* C14: a commit or a branch creation that git rejects does not end the
\* tool call: the call still returns its result and only reports the
\* failure.
C14_CheckpointFailureNotFatal ==
    CheckpointFailed(resp) => resp.kind = "ok"

\* C15: a tool call changes the state file by all of its updates or by
\* none: when a write fails part-way through start_milestone,
\* generate_reproduction_plan or track_progress at 100, the state file does
\* not hold only a part of the call's changes.
C15_AllOrNothingOnDisk ==
    [][(resp'.kind = "raised" /\ resp'.msg = "OSError")
          => \/ disk'[Dir] = disk[Dir]
             \/ disk'[Dir] = <<State'>>]_vars

\* C16: opening the project state of one directory twice, with no write to
\* its state file in between, gives the same state both times, for a
\* directory with a state file and for a fresh one, timestamps included.
\* (The two opens are taken in consecutive states: any step that leaves the
\* directory's state file alone lies between them.)
C16_ReopenIdentical ==
    [][\A p \in Paths :
           disk'[p] = disk[p] => load_state(p)' = load_state(p)]_vars

\* C16 as it holds: the same state both times for a directory with a state
\* file; for a fresh directory the same state but for created_at and
\* last_updated, which are the time of each open.
WithoutTimestamps(state) ==
    [state EXCEPT !.created_at = 0, !.last_updated = 0]

C16_ReopenIdenticalWhenPersisted ==
    [][\A p \in Paths :
           disk'[p] = disk[p]
               => IF disk[p] # <<>>
                      THEN load_state(p)' = load_state(p)
                      ELSE /\ WithoutTimestamps(load_state(p)') =
                                  WithoutTimestamps(load_state(p))
                           /\ load_state(p)'.created_at = now'
                           /\ load_state(p)'.last_updated = now']_vars

C16_Witness ==
    /\ Active
    /\ resp.op = "initialize_project"
    /\ disk[Dir] = <<State>>
    /\ ~Falsy(State.paper_info)
    /\ State.created_at < State.last_updated
    /\ load_state(Dir) = State

\* C17: after initialize_project the active project is empty: no paper_info,
\* user_profile or reproduction_plan, no current milestone, no step records
\* or completion flags, current_stage "initialization"; also when the
\* directory held a project that had been initialized and advanced before.
C17_InitializeGivesEmptyProject ==
    (Active /\ resp.op = "initialize_project")
        => /\ Falsy(State.paper_info)
           /\ Falsy(State.user_profile)
           /\ Falsy(State.reproduction_plan)
           /\ State.current_milestone = None
           /\ State.current_stage = <<"initialization">>
           /\ \A id \in MilestoneIdInputs :
                  /\ State.milestone_progress[id] = <<>>
                  /\ Falsy(State.milestone_overall_progress[id])
                  /\ ~State.milestone_completed[id]

\* C18: the difficulty label of the plan depends on experience_level alone:
\* beginner gives the high label, intermediate the medium label, everything
\* else (advanced, expert, an unrecognized string, no experience_level at
\* all) the moderate label.
C18_Label(user_profile) ==
    IF "experience_level" \notin DOMAIN user_profile
        THEN "moderate difficulty"
    ELSE IF user_profile.experience_level = "beginner"
        THEN "high difficulty"
    ELSE IF user_profile.experience_level = "intermediate"
        THEN "medium difficulty"
    ELSE "moderate difficulty"

PlanJustGenerated ==
    /\ Active
    /\ resp.op = "generate_reproduction_plan"
    /\ resp.kind = "ok"

C18_DifficultyByExperience ==
    PlanJustGenerated
        => State.reproduction_plan.overview.difficulty =
               C18_Label(State.user_profile)

\* C19: whatever paper_info and user_profile, the plan has the milestones
\* M1..M5 in this order (so with unique ids) with 4, 8, 6, 10 and 12 hours,
\* and its timeline is 40 hours and 5 days, the hours divided by 8 and
\* rounded up; a plan generated again has the same ids.
C19_FixedMilestonesAndTimeline ==
    (Active /\ ~Falsy(State.reproduction_plan))
        => LET plan == State.reproduction_plan
               total == plan.estimated_timeline.total_hours
           IN  /\ [i \in 1..Len(plan.milestones) |-> plan.milestones[i].id]
                      = <<"M1", "M2", "M3", "M4", "M5">>
               /\ [i \in 1..Len(plan.milestones) |->
                       plan.milestones[i].estimated_hours]
                      = <<4, 8, 6, 10, 12>>
               /\ total = 40
               /\ plan.estimated_timeline.days = 5
               /\ plan.estimated_timeline.days =
                      (total \div 8) + (IF total % 8 > 0 THEN 1 ELSE 0)

C19_Witness ==
    /\ PlanJustGenerated
    /\ ~Falsy(State.reproduction_plan)
    /\ State.user_profile = [hardware |-> "gpu"]
    /\ Len(State.reproduction_plan.milestones) = 5
    /\ State.reproduction_plan.estimated_timeline.total_hours = 40

\* C20: core_packages is numpy, pandas, scikit-learn followed by the
\* packages of the framework the planner reads (preferred_framework, PyTorch
\* when the profile has none), looked up by exact match among PyTorch,
\* TensorFlow and JAX; a framework that matches none of them, such as
\* "ObscureFW", gets the three base packages alone.
C20_Extension(framework) ==
    CASE framework = "PyTorch" -> <<"torch", "torchvision", "pytorch-lightning">>
      [] framework = "TensorFlow" -> <<"tensorflow", "keras">>
      [] framework = "JAX" -> <<"jax", "flax", "optax">>
      [] OTHER -> <<>>

C20_CorePackagesByFramework ==
    PlanJustGenerated
        => LET profile == State.user_profile
               framework == IF "preferred_framework" \in DOMAIN profile
                                THEN profile.preferred_framework
                                ELSE "PyTorch"
               core == State.reproduction_plan.environment_setup.core_packages
           IN  /\ core = <<"numpy", "pandas", "scikit-learn">>
                             \o C20_Extension(framework)
               /\ framework = "ObscureFW"
                      => core = <<"numpy", "pandas", "scikit-learn">>

C20_Witness ==
    /\ PlanJustGenerated
    /\ "preferred_framework" \in DOMAIN State.user_profile
    /\ State.user_profile.preferred_framework = "ObscureFW"
    /\ Len(State.reproduction_plan.environment_setup.core_packages) = 3

\* C21: start_milestone, confirm_step and track_progress never change
\* reproduction_plan, in memory or in the state file: the plan stays what
\* generate_reproduction_plan stored, progress goes to the progress fields.
MilestoneTools == {"start_milestone", "confirm_step", "track_progress"}

C21_PlanUntouchedByMilestoneTools ==
    [][(Active /\ resp'.op \in MilestoneTools)
          => /\ Active'
             /\ Dir' = Dir
             /\ State'.reproduction_plan = State.reproduction_plan
             /\ disk'[Dir] # <<>>
             /\ disk'[Dir][1].reproduction_plan =
                    disk[Dir][1].reproduction_plan]_vars

C21_Witness ==
    /\ Active
    /\ resp.op = "track_progress"
    /\ resp.kind = "ok"
    /\ State.current_milestone = "M1"
    /\ State.milestone_progress["M1"] # <<>>
    /\ State.milestone_completed["M1"]
    /\ ~Falsy(State.reproduction_plan)
    /\ State.reproduction_plan.milestones = _generate_milestones
    /\ disk[Dir] = <<State>>

\* C22: when track_progress with a percentage of 100 or more completes the
\* milestone that is the current one, the project has no current milestone
\* afterwards (until start_milestone sets one), so confirm_step cannot go
\* on appending to the completed milestone.
C22_CompletedMilestoneNotCurrent ==
    (/\ Active
     /\ resp.op = "track_progress"
     /\ resp.msg = "milestone_completed")
        => State.current_milestone # resp.arg

\* C23: assess_user_background with no or empty responses is a query: it
\* answers with the questions and changes nothing, a profile recorded
\* before stays; with non-empty responses it stores them as user_profile
\* exactly as given, whether or not the answers are among the options.
C23_EmptyResponsesAreAQuery ==
    [][\A responses \in PlanProfiles \cup {EmptyMap} :
           (Active /\ assess_user_background(responses))
               => IF Falsy(responses)
                      THEN /\ resp'.msg = "questions"
                           /\ UNCHANGED <<current_project,
                                          current_git_manager, disk, repo>>
                      ELSE /\ resp'.msg = "profile_saved"
                           /\ State'.user_profile = responses
                           /\ [State' EXCEPT
                                   !.user_profile = State.user_profile,
                                   !.last_updated = State.last_updated]
                                  = State
                           /\ disk'[Dir] = <<State'>>]_vars

C23_Witness ==
    /\ Active
    /\ resp.op = "assess_user_background"
    /\ resp.msg = "questions"
    /\ State.user_profile = [preferred_framework |-> "ObscureFW",
                             experience_level |-> "guru"]
    /\ disk[Dir] = <<State>>

\* C24: start_milestone called while no plan has been generated answers
\* that the plan is missing and is to be generated first, not that the
\* milestone was not found, and changes nothing.
C24_NoPlanIsAPreconditionError ==
    (/\ Active
     /\ resp.op = "start_milestone"
     /\ Falsy(State.reproduction_plan))
        => /\ resp.kind = "guide"
           /\ resp.msg = "generate_plan_first"

\* C25: the step records of a milestone only grow, and only by
\* confirm_step: every step leaves every milestone's records as they were,
\* in memory and in the state file, except that confirm_step appends one
\* record at the end of the current milestone's records; restarting a
\* milestone, track_progress, a new plan and initialize_project on the
\* same directory keep all of them.
RecordsKept(before, after) ==
    \A id \in MilestoneIdInputs :
        \/ after.milestone_progress[id] = before.milestone_progress[id]
        \/ /\ resp'.op = "confirm_step"
           /\ id = before.current_milestone
           /\ Len(after.milestone_progress[id]) =
                  Len(before.milestone_progress[id]) + 1
           /\ SubSeq(after.milestone_progress[id], 1,
                     Len(before.milestone_progress[id]))
                  = before.milestone_progress[id]

C25_StepRecordsAppendOnly ==
    [][Active
          => /\ Active'
             /\ Dir' = Dir
             /\ RecordsKept(State, State')
             /\ disk'[Dir] # <<>>
             /\ RecordsKept(disk[Dir][1], disk'[Dir][1])]_vars

C25_Witness ==
    /\ Active
    /\ resp.op = "initialize_project"
    /\ Len(State.milestone_progress["M1"]) = 3
    /\ State.milestone_completed["M1"]
    /\ State.current_stage = <<"planning_complete">>
    /\ disk[Dir] = <<State>>

\* C26: confirm_step commits, under the id of the current milestone,
\* exactly when the status is completed and the description contains one
\* of the two keywords; a stuck or need_help step, or a completed step
\* without a keyword, makes no commit.
HasMarker(step_description) ==
    \E i \in 1..(Len(step_description) - 1) :
        <<step_description[i], step_description[i + 1]>>
            \in {<<"shi", "xian">>, <<"wan", "cheng">>}

StepJustConfirmed ==
    /\ Active
    /\ resp.op = "confirm_step"
    /\ resp.kind # "guide"

C26_CheckpointOnlyForCompletedMarkedSteps ==
    StepJustConfirmed
        => LET made == calls[Dir][resp.arg]
               call == made[Len(made)]
           IN  /\ resp.arg = State.current_milestone
               /\ (resp.git \in {"commit", "commit_failed"})
                      <=> (call[2] = "completed" /\ HasMarker(call[1]))
               /\ resp.git \in {"commit", "commit_failed", "none"}

C26_Witness ==
    /\ StepJustConfirmed
    /\ resp.git = "commit"
    /\ resp.arg = "M2"
    /\ ~repo[Dir].dirty
    /\ calls[Dir]["M2"] = << << <<"A", "wan", "cheng">>, "completed", "" >> >>
    /\ calls[Dir]["M1"] = << << <<"shi", "A", "xian">>, "completed", "" >> >>

PlanHasPrerequisites(state) ==
    ~Falsy(state.reproduction_plan)
        => ~Falsy(state.paper_info) /\ ~Falsy(state.user_profile)

C28_PlanImpliesPaperAndProfile ==
    /\ Active => PlanHasPrerequisites(State)
    /\ \A p \in Paths : disk[p] # <<>> => PlanHasPrerequisites(disk[p][1])

C28_Witness ==
    /\ Active
    /\ ~Falsy(State.reproduction_plan)
    /\ resp.op = "analyze_paper"
    /\ resp.msg = "no_pdf_link"
    /\ ~Falsy(State.paper_info)
    /\ ~Falsy(State.user_profile)
    /\ disk[Dir] = <<State>>

\* C29: in every state reached from a fresh project, a current_milestone
\* that is set is the id of a milestone of the stored plan (so a plan
\* exists), in memory and in the state file, and confirm_step finds the
\* tasks of the current milestone.
CurrentMilestoneInPlan(state) ==
    state.current_milestone # None
        => /\ ~Falsy(state.reproduction_plan)
           /\ state.current_milestone
                  \in MilestoneIdsOf(state.reproduction_plan)
           /\ TasksOf(state.reproduction_plan, state.current_milestone) # <<>>

C29_CurrentMilestoneIsInThePlan ==
    /\ Active => CurrentMilestoneInPlan(State)
    /\ \A p \in Paths : disk[p] # <<>> => CurrentMilestoneInPlan(disk[p][1])

C29_Witness ==
    /\ Active
    /\ resp.op = "start_milestone"
    /\ resp.msg = "milestone_not_found"
    /\ resp.arg = "MX"
    /\ State.current_milestone = "M2"
    /\ ~Falsy(State.reproduction_plan)

\* C30: whenever current_milestone is set to an id, current_stage is
\* "milestone_" followed by that id; no call, a second
\* generate_reproduction_plan after start_milestone in particular, makes
\* the two disagree.
C30_StageFollowsCurrentMilestone ==
    (Active /\ State.current_milestone # None)
        => State.current_stage = <<"milestone_", State.current_milestone>>

\* C31: a completed flag that is true stays true, in the state file of its
\* project and in memory while that project is the current one, whatever
\* is called later (track_progress below 100, start_milestone,
\* confirm_step, a new plan); so the number of completed milestones that
\* get_project_status counts never goes down.
CompletedMilestones(state) ==
    LET milestones == Get(state.reproduction_plan, "milestones", <<>>)
    IN  Cardinality({i \in 1..Len(milestones) :
                        state.milestone_completed[milestones[i].id]})

CompletionKept(before, after) ==
    /\ \A id \in MilestoneIdInputs :
           before.milestone_completed[id] => after.milestone_completed[id]
    /\ CompletedMilestones(after) >= CompletedMilestones(before)

C31_CompletionIsPermanent ==
    [][/\ \A p \in Paths :
              disk[p] # <<>>
                  => disk'[p] # <<>> /\ CompletionKept(disk[p][1], disk'[p][1])
       /\ (Active /\ Dir' = Dir) => CompletionKept(State, State')]_vars

C31_Witness ==
    /\ Active
    /\ resp.op = "track_progress"
    /\ resp.msg = "progress_updated"
    /\ resp.arg = "M1"
    /\ State.milestone_completed["M1"]
    /\ ~Falsy(State.milestone_overall_progress["M1"])
    /\ State.milestone_overall_progress["M1"].percentage = 50
    /\ CompletedMilestones(State) = 1
    /\ disk[Dir] = <<State>>

\* C32: in every reachable state the completed flag of a milestone and its
\* stored percentage agree: the flag is true exactly when the overall
\* progress entry holds a percentage of 100 or more, after any sequence of
\* track_progress calls on the milestone.
C32_FlagAgreesWithPercentage ==
    Active
        => \A id \in MilestoneIdInputs :
               State.milestone_completed[id]
                   <=> /\ ~Falsy(State.milestone_overall_progress[id])
                       /\ State.milestone_overall_progress[id].percentage
                              >= 100

====
